---- MODULE Spec2Model ----
(***************************************************************************)
(* Model of the cache-first content-resolution pipeline of the YouTube API *)
(* server: the /api/v1 request gate (routes/api.py), the daily rate        *)
(* limiter (services/rate_limiter.py) and the Telegram cache               *)
(* (services/telegram_cache.py).                                           *)
(*                                                                         *)
(* Documents of the MongoDB collections are functions from field names to  *)
(* values, so that a field can be absent as in the stored documents, and   *)
(* Get(d, f, default) is Python's dict.get.                                *)
(***************************************************************************)
EXTENDS Integers, Sequences, FiniteSets, TLC

(***************************************************************************)
(* Bounds of the model.                                                    *)
(***************************************************************************)
NumRequests == 2
MaxDay == 1
MaxLimit == 2
NumTasks == 2
NumLookups == 1
MaxAgeDays == 3

(***************************************************************************)
(* Program constants.                                                      *)
(***************************************************************************)
DefaultRateLimit == 1000
MaxConcurrentUploads == 3
ChunkSize == 8192
MaxFileSize == 50 * 1024 * 1024
RetryDelays == <<1, 2, 5, 10, 30>>

VARIABLES
    api_keys,          \* db.api_keys: key string -> stored document
    today,             \* datetime.utcnow().date(), as a day number
    now,               \* datetime.utcnow(), as a logical timestamp
    concurrent_users,  \* db.concurrent_users: the registered session ids
    req,               \* the /api/v1 requests in flight, one worker thread each
    content_cache,     \* db.content_cache: the set of stored cache documents
    telegram_files,    \* the file ids bot.get_file can still resolve in the channel
    telegram_available,\* TelegramCache.telegram_available
    upload_semaphore,  \* the value of TelegramCache.upload_semaphore
    ing,               \* the download_and_cache calls (background ingestions)
    lk                 \* the check_cache calls (lookups)

apiVars == <<api_keys, today, now, concurrent_users, req>>
cacheVars == <<content_cache, telegram_files, telegram_available, upload_semaphore,
               ing, lk>>
vars == <<apiVars, cacheVars>>

Requests == 1..NumRequests

\* The keys the requests present: "" is a request without key, "k1" is an
\* active stored key, "k2" a deactivated stored key, "bad" is not stored.
NoKey == ""
PresentedKeys == {NoKey, "k1", "k2", "bad"}
StoredKeys == {"k1", "k2"}
Endpoints == {"api.get_video", "api.get_audio", "api.get_status"}
ContentEndpoints == {"api.get_video", "api.get_audio"}

None == [is_none |-> TRUE]

Get(d, f, default) == IF f \in DOMAIN d THEN d[f] ELSE default

\* The $set / $inc of update_one: fields of u replace or extend those of d.
SetFields(d, u) ==
    [f \in (DOMAIN d) \cup (DOMAIN u) |-> IF f \in DOMAIN u THEN u[f] ELSE d[f]]

\* APIKey.to_dict: the document the admin panel inserts for a new key.
APIKeyDoc(active, limit) ==
    [is_active |-> active, rate_limit |-> limit, usage_count |-> 0]

(***************************************************************************)
(* services/rate_limiter.py                                                *)
(***************************************************************************)
\* db.api_keys.find_one({'key': api_key, 'is_active': True})
find_one_any(keys, k) ==
    IF k \in DOMAIN keys THEN keys[k] ELSE None
find_one_active(keys, k) ==
    IF k \in DOMAIN keys /\ keys[k].is_active THEN keys[k] ELSE None

\* key_data.get('daily_limit', key_data.get('rate_limit', 1000))
DailyLimitOf(key_data) ==
    Get(key_data, "daily_limit", Get(key_data, "rate_limit", DefaultRateLimit))

\* daily_requests after the "new day" reset of lines 51-58
DailyRequestsOf_noreset(key_data, current_date) == Get(key_data, "daily_requests", 0)
DailyRequestsOf(key_data, current_date) ==
    IF Get(key_data, "last_reset_date", current_date) # current_date
    THEN 0
    ELSE Get(key_data, "daily_requests", 0)

\* `if daily_requests >= daily_limit` (line 61)
LimitExceeded_strict(daily_requests, daily_limit) == daily_requests > daily_limit
LimitExceeded(daily_requests, daily_limit) == daily_requests >= daily_limit

\* datetime.combine(current_date, min.time()) + timedelta(days=1)
NextMidnight_today(current_date) == [kind |-> "midnight", day |-> current_date]
NextMidnight(current_date) == [kind |-> "midnight", day |-> current_date + 1]

Text(s) == [kind |-> "text", text |-> s]

Max(a, b) == IF a >= b THEN a ELSE b

\* The dictionaries check_and_update_daily_limit returns.
KeyNotFoundResult ==
    [allowed |-> FALSE, daily_requests |-> 0, daily_limit |-> 0, remaining |-> 0,
     reset_at |-> Text("Invalid API key"), error |-> "API key not found or inactive"]

LimitExceededResult(daily_requests, daily_limit, current_date) ==
    [allowed |-> FALSE, daily_requests |-> daily_requests, daily_limit |-> daily_limit,
     remaining |-> 0, reset_at |-> NextMidnight(current_date),
     error |-> "Daily limit exceeded"]

AllowedResult(new_daily_requests, daily_limit, current_date) ==
    [allowed |-> TRUE, daily_requests |-> new_daily_requests, daily_limit |-> daily_limit,
     remaining |-> Max(0, daily_limit - new_daily_requests),
     reset_at |-> NextMidnight(current_date)]

UpdateFailedResult(daily_requests, daily_limit, current_date) ==
    [allowed |-> FALSE, daily_requests |-> daily_requests, daily_limit |-> daily_limit,
     remaining |-> Max(0, daily_limit - daily_requests),
     reset_at |-> NextMidnight(current_date), error |-> "Failed to update request count"]

\* The dictionary of the except clause (lines 115-124), with a result that
\* lets the request through beside it.
StoreErrorResult_allowed(e) ==
    [allowed |-> TRUE, daily_requests |-> 0, daily_limit |-> 0, remaining |-> 0,
     reset_at |-> Text("Error"), error |-> e]
StoreErrorResult(e) ==
    [allowed |-> FALSE, daily_requests |-> 0, daily_limit |-> 0, remaining |-> 0,
     reset_at |-> Text("Error"), error |-> e]

\* The update document of update_one (lines 79-87).
UpdatedKeyDoc(doc, new_daily_requests, daily_limit, current_date, utcnow) ==
    SetFields(doc, [daily_requests |-> new_daily_requests,
                    daily_limit |-> daily_limit,
                    last_reset_date |-> current_date,
                    last_request_time |-> utcnow,
                    usage_count |-> Get(doc, "usage_count", 0) + 1])

(***************************************************************************)
(* routes/api.py                                                           *)
(***************************************************************************)
\* `if not api_key` (line 27), negated
HasApiKey_always(api_key) == TRUE
HasApiKey(api_key) == api_key # NoKey

\* The 401 of lines 28-32.
KeyRequiredResponse ==
    [code |-> 401, error |-> "API key required"]

\* The 429 of lines 41-49.
RateLimitResponse(rate_check) ==
    [code |-> 429, error |-> Get(rate_check, "error", "Rate limit exceeded"),
     daily_requests |-> rate_check.daily_requests,
     daily_limit |-> rate_check.daily_limit,
     remaining |-> rate_check.remaining,
     reset_at |-> rate_check.reset_at]

\* after_request: unregister_concurrent_user deletes the session's document.
after_request(users, session_id) == users \ {session_id}

\* register_concurrent_user: ConcurrentUser(session_id=, api_key=, endpoint=)
\* raises TypeError (models_simple.ConcurrentUser takes no endpoint), which the
\* method's except clause logs, so nothing is inserted.
register_concurrent_user(users, session_id) == users

NoSession == <<>>
NewSession(p) == <<p>>

\* A source URL is the sequence of its parts; no URL is the empty sequence.
NoUrl == <<>>

IdleRequest ==
    [pc |-> "idle", endpoint |-> "", api_key |-> NoKey, key_data |-> None,
     current_date |-> 0, rate_check |-> None, response |-> None,
     session_id |-> NoSession, orchestrated |-> FALSE,
     youtube_url |-> NoUrl, upstream_ok |-> FALSE, store_raised |-> FALSE,
     fetch |-> None]

Finish(p, r, response) ==
    /\ req' = [req EXCEPT ![p] = [r EXCEPT !.pc = "done", !.response = response]]
    /\ concurrent_users' = after_request(concurrent_users, r.session_id)

\* A request arrives and before_request runs up to the rate limiter's call.
BeforeRequest(p, endpoint, api_key) ==
    /\ req[p].pc = "idle"
    /\ \A q \in Requests : q < p => req[q].pc # "idle"
    /\ LET r == [req[p] EXCEPT !.endpoint = endpoint, !.api_key = api_key] IN
         IF endpoint = "api.get_status"
         THEN /\ req' = [req EXCEPT ![p] = [r EXCEPT !.pc = "handler"]]
              /\ UNCHANGED concurrent_users
         ELSE IF ~HasApiKey(api_key)
         THEN Finish(p, r, KeyRequiredResponse)
         ELSE /\ req' = [req EXCEPT ![p] = [r EXCEPT !.pc = "find_one"]]
              /\ UNCHANGED concurrent_users
    /\ UNCHANGED <<api_keys, today, now, cacheVars>>

\* check_and_update_daily_limit, lines 35-45: the read of the key document.
FindOne(p) ==
    /\ req[p].pc = "find_one"
    /\ LET key_data == find_one_active(api_keys, req[p].api_key)
           r == [req[p] EXCEPT !.key_data = key_data] IN
         IF key_data = None
         THEN Finish(p, [r EXCEPT !.rate_check = KeyNotFoundResult],
                     RateLimitResponse(KeyNotFoundResult))
         ELSE /\ req' = [req EXCEPT ![p] = [r EXCEPT !.pc = "check_limit"]]
              /\ UNCHANGED concurrent_users
    /\ UNCHANGED <<api_keys, today, now, cacheVars>>

\* check_and_update_daily_limit, lines 47-71: the date, the reset and the check.
CheckLimit(p) ==
    /\ req[p].pc = "check_limit"
    /\ LET key_data == req[p].key_data
           current_date == today
           daily_requests == DailyRequestsOf(key_data, current_date)
           daily_limit == DailyLimitOf(key_data)
           r == [req[p] EXCEPT !.current_date = current_date] IN
         IF LimitExceeded(daily_requests, daily_limit)
         THEN LET rate_check == LimitExceededResult(daily_requests, daily_limit, current_date)
              IN Finish(p, [r EXCEPT !.rate_check = rate_check],
                        RateLimitResponse(rate_check))
         ELSE /\ req' = [req EXCEPT ![p] = [r EXCEPT !.pc = "update_one"]]
              /\ UNCHANGED concurrent_users
    /\ UNCHANGED <<api_keys, today, now, cacheVars>>

\* check_and_update_daily_limit, lines 73-113: the write, then the rest of
\* before_request (lines 51-74).
UpdateOne(p) ==
    /\ req[p].pc = "update_one"
    /\ LET key_data == req[p].key_data
           current_date == req[p].current_date
           daily_requests == DailyRequestsOf(key_data, current_date)
           daily_limit == DailyLimitOf(key_data)
           new_daily_requests == daily_requests + 1
           k == req[p].api_key IN
         IF k \in DOMAIN api_keys
         THEN /\ api_keys' = [api_keys EXCEPT ![k] =
                      UpdatedKeyDoc(api_keys[k], new_daily_requests, daily_limit,
                                    current_date, now + 1)]
              /\ now' = now + 1
              /\ req' = [req EXCEPT ![p] =
                      [req[p] EXCEPT !.rate_check =
                                        AllowedResult(new_daily_requests, daily_limit,
                                                      current_date),
                                     !.session_id = NewSession(p),
                                     !.pc = "handler"]]
              /\ concurrent_users' = register_concurrent_user(concurrent_users, NewSession(p))
         ELSE /\ LET rate_check == UpdateFailedResult(daily_requests, daily_limit,
                                                      current_date)
                 IN Finish(p, [req[p] EXCEPT !.rate_check = rate_check],
                           RateLimitResponse(rate_check))
              /\ UNCHANGED <<api_keys, now>>
    /\ UNCHANGED <<today, cacheVars>>

\* The errors the store's driver raises from find_one and update_one.
StoreErrors == {"AutoReconnect"}

\* check_and_update_daily_limit when find_one (line 37) or update_one
\* (line 75) raises: the except clause of lines 115-124 returns its
\* dictionary, and before_request (lines 40-55) answers 429 when it is not
\* allowed. An update_one that raised may or may not have been applied by
\* the server.
StoreError(p, e, applied) ==
    /\ req[p].pc \in {"find_one", "update_one"}
    /\ applied => req[p].pc = "update_one" /\ req[p].api_key \in DOMAIN api_keys
    /\ LET rate_check == StoreErrorResult(e)
           r == [req[p] EXCEPT !.rate_check = rate_check, !.store_raised = TRUE] IN
         IF ~rate_check.allowed
         THEN Finish(p, r, RateLimitResponse(rate_check))
         ELSE /\ req' = [req EXCEPT ![p] =
                      [r EXCEPT !.session_id = NewSession(p), !.pc = "handler"]]
              /\ concurrent_users' = register_concurrent_user(concurrent_users, NewSession(p))
    /\ IF applied
       THEN LET key_data == req[p].key_data
                current_date == req[p].current_date
                k == req[p].api_key IN
              /\ api_keys' = [api_keys EXCEPT ![k] =
                      UpdatedKeyDoc(api_keys[k], DailyRequestsOf(key_data, current_date) + 1,
                                    DailyLimitOf(key_data), current_date, now + 1)]
              /\ now' = now + 1
       ELSE UNCHANGED <<api_keys, now>>
    /\ UNCHANGED <<today, cacheVars>>

\* RateLimiter.get_api_key_stats (lines 126-157): find_one({'key': api_key}).
get_api_key_stats(keys, api_key, current_date) ==
    IF api_key \notin DOMAIN keys
    THEN None
    ELSE LET key_data == keys[api_key]
             daily_requests == DailyRequestsOf(key_data, current_date)
             daily_limit == DailyLimitOf(key_data) IN
         [daily_requests |-> daily_requests,
          daily_limit |-> daily_limit,
          remaining |-> Max(0, daily_limit - daily_requests),
          total_usage |-> Get(key_data, "usage_count", 0),
          is_active |-> Get(key_data, "is_active", TRUE),
          reset_at |-> NextMidnight(current_date)]

\* get_status (lines 76-122): always answers 200, with the key's statistics
\* when the key is stored.
StatusResponse(stats) ==
    IF stats = None
    THEN [code |-> 200, status |-> TRUE]
    ELSE [code |-> 200, status |-> TRUE,
          daily_requests |-> stats.daily_requests,
          daily_limit |-> stats.daily_limit,
          remaining_requests |-> stats.remaining,
          total_usage |-> stats.total_usage,
          is_active |-> stats.is_active,
          daily_reset_at |-> stats.reset_at]

GetStatus(p) ==
    /\ req[p].pc = "handler"
    /\ req[p].endpoint = "api.get_status"
    /\ LET stats == IF HasApiKey(req[p].api_key)
                    THEN get_api_key_stats(api_keys, req[p].api_key, today)
                    ELSE None
       IN Finish(p, req[p], StatusResponse(stats))
    /\ UNCHANGED <<api_keys, today, now, cacheVars>>

\* The 400 of get_video / get_audio (lines 137-142, 170-175).
MissingUrlResponse == [code |-> 400, error |-> "Missing URL parameter"]

\* The URL shapes of extract_video_id (lines 174-177), in the order tried,
\* and the characters that end the identifier ([^&?\n]).
UrlShapes ==
    << {"youtube.com/watch?v=", "youtu.be/", "youtube.com/embed/"},
       {"youtube.com/v/"} >>
IdStops == {"&", "?"}

\* re.search(pattern, youtube_url): the places where a shape is followed by
\* an identifier.
PatternSearch(url, shape) ==
    {i \in 1..(Len(url) - 1) : url[i] \in shape /\ url[i + 1] \notin IdStops}

\* The least element of a non-empty set of numbers.
Least(S) == CHOOSE i \in S : \A j \in S : i <= j

\* YouTubeDownloader.extract_video_id (lines 171-184): the identifier after
\* the leftmost match of the first shape that matches, or ValueError.
extract_video_id(url) ==
    IF PatternSearch(url, UrlShapes[1]) # {}
    THEN [raised |-> FALSE, video_id |-> url[Least(PatternSearch(url, UrlShapes[1])) + 1]]
    ELSE IF PatternSearch(url, UrlShapes[2]) # {}
    THEN [raised |-> FALSE, video_id |-> url[Least(PatternSearch(url, UrlShapes[2])) + 1]]
    ELSE [raised |-> TRUE, video_id |-> ""]

\* The dictionary of process_youtube_request's except clause (lines 316-324).
ErrorResult(e) == [status |-> FALSE, error |-> e]

\* APIService.process_youtube_request (lines 141-324). extract_video_id may
\* raise ValueError (line 169). Then line 177 reads content_cache_collection,
\* a name bound neither in the function (which binds `collection`, line 154)
\* nor in the module (which imports get_content_cache_collection, line 8):
\* NameError is raised before find_one is called. Both exceptions end in the
\* except clause of line 316; log_usage (lines 66-82) catches the TypeError
\* of its UsageStats call. Lines 183-314 are never reached.
process_youtube_request(youtube_url) ==
    IF extract_video_id(youtube_url).raised
    THEN ErrorResult("Invalid YouTube URL")
    ELSE ErrorResult("name 'content_cache_collection' is not defined")

\* jsonify(result) of get_video / get_audio (lines 149, 182): the
\* orchestrator's result is sent with the default status 200.
ContentResponse(result) == [code |-> 200, body |-> result]

\* The URLs given to the gate's model: none, and one of an accepted shape.
ValidUrl == <<"https://", "youtu.be/", "abc123">>
Urls == {NoUrl, ValidUrl}

\* 'video' for get_video (line 146), 'audio' for get_audio.
ContentTypeOf(endpoint) == IF endpoint = "api.get_audio" THEN "audio" ELSE "video"

\* get_video / get_audio (lines 124-190): the orchestrator
\* (api_service.process_youtube_request) is called when a URL is given.
\* upstream_ok tells whether the upstream provider would answer a fetch made
\* during this request.
GetContent(p, youtube_url, upstream_ok) ==
    /\ req[p].pc = "handler"
    /\ req[p].endpoint \in ContentEndpoints
    /\ LET r == [req[p] EXCEPT !.youtube_url = youtube_url, !.upstream_ok = upstream_ok] IN
         IF youtube_url = NoUrl
         THEN Finish(p, r, MissingUrlResponse)
         ELSE Finish(p, [r EXCEPT !.orchestrated = TRUE],
                     ContentResponse(process_youtube_request(youtube_url)))
    /\ UNCHANGED <<api_keys, today, now, cacheVars>>

\* Midnight (UTC) passes.
Midnight ==
    /\ today < MaxDay
    /\ today' = today + 1
    /\ UNCHANGED <<api_keys, now, concurrent_users, req, cacheVars>>


(***************************************************************************)
(* services/telegram_cache.py                                              *)
(***************************************************************************)
Tasks == 1..NumTasks
Lookups == 1..NumLookups
VideoIds == {"abc123"}
FileTypes == {"video", "audio"}
NoneQuality == "None"
\* The qualities ingested: two of video, one of audio.
QualitiesOf(content_type) == IF content_type = "video" THEN {"360", "720"} ELSE {"320"}
\* The qualities looked up: none, one that is ingested and one that never is.
LookupQualitiesOf(content_type) ==
    IF content_type = "video" THEN {NoneQuality, "480", "720"} ELSE {NoneQuality}
NoFile == <<>>

\* The file id Telegram gives the upload of task t.
FileIdOf(t) == <<t>>

\* _generate_content_hash: md5 of "{video_id}_{content_type}_{quality}", one
\* value per triple.
generate_content_hash(video_id, content_type, quality) ==
    <<video_id, content_type, quality>>

\* Documents matching {'content_hash': content_hash, 'status': 'active'}.
ActiveWithHash(cache, content_hash) ==
    {d \in cache : d.content_hash = content_hash /\ d.status = "active"}

\* _check_duplicate_by_hash (lines 269-281)
check_duplicate_by_hash(cache, content_hash) == ActiveWithHash(cache, content_hash) # {}

\* The document of _save_professional_cache_entry (lines 412-433).
CacheEntry(id, video_id, content_type, quality, telegram_file_id, content_hash) ==
    [_id |-> id,
     youtube_id |-> video_id,
     telegram_file_id |-> telegram_file_id,
     file_type |-> content_type,
     quality |-> IF content_type = "video" THEN quality ELSE NoneQuality,
     content_hash |-> content_hash,
     status |-> "active",
     created_at |-> today,
     last_accessed |-> today,
     last_verified |-> today,
     access_count |-> 0]

\* primary_query of check_cache (lines 93-100)
PrimaryMatches(cache, youtube_id, content_type, quality) ==
    {d \in cache :
        /\ d.youtube_id = youtube_id
        /\ d.file_type = content_type
        /\ d.status = "active"
        /\ (quality # NoneQuality /\ content_type = "video") => d.quality = quality}

\* fallback_query of check_cache (lines 107-111)
FallbackMatches(cache, youtube_id, content_type) ==
    {d \in cache :
        /\ d.youtube_id = youtube_id
        /\ d.file_type = content_type
        /\ d.status = "active"}

\* `content_type == 'video' and quality` (line 106)
HasFallback(content_type, quality) == content_type = "video" /\ quality # NoneQuality

\* _verify_telegram_file (lines 254-262): False when Telegram is not set up,
\* when get_file raises (the file is gone, or the call fails), True otherwise.
verify_telegram_file(available, files, telegram_file_id, call_fails) ==
    /\ available
    /\ ~call_fails
    /\ telegram_file_id \in files

\* update_one({'_id': id}, {'$inc': {'access_count': 1}, ...}) (lines 120-129)
TouchEntry_set(cache, id) ==
    {IF d._id = id
     THEN [d EXCEPT !.access_count = 1, !.last_accessed = today, !.last_verified = today]
     ELSE d : d \in cache}
TouchEntry(cache, id) ==
    {IF d._id = id
     THEN [d EXCEPT !.access_count = @ + 1, !.last_accessed = today,
                    !.last_verified = today]
     ELSE d : d \in cache}

\* update_one({'_id': id}, {'$set': {'status': 'inactive', ...}}) (lines 149-152)
MarkInactive_noop(cache, id) == cache
MarkInactive(cache, id) ==
    {IF d._id = id THEN [d EXCEPT !.status = "inactive", !.last_verified = today]
     ELSE d : d \in cache}

\* The dictionary check_cache returns on a hit (lines 135-146).
HitResult(cached_content) ==
    [telegram_file_id |-> cached_content.telegram_file_id,
     file_type |-> cached_content.file_type,
     quality |-> cached_content.quality,
     access_count |-> cached_content.access_count + 1,
     cached |-> TRUE,
     cache_verified |-> TRUE]

\* A download_and_cache call: its arguments, what it has seen and done so far
\* (the active records of its hash at the duplicate check, the bytes written
\* by the download, the outcomes of the upload attempts and the delays slept
\* between them) and its result.
IdleTask ==
    [pc |-> "idle", video_id |-> "", type |-> "", quality |-> "",
     content_hash |-> <<>>, existing |-> {}, received |-> 0,
     attempts |-> <<>>, slept |-> <<>>, telegram_file_id |-> NoFile,
     result |-> NoFile, sem_loop |-> FALSE]

IdleLookup ==
    [pc |-> "idle", youtube_id |-> "", content_type |-> "", quality |-> "",
     cached_content |-> None, probe |-> "", fallback_case |-> FALSE,
     result |-> None]

\* download_and_cache returns: the semaphore is released (`async with`, line
\* 169). Semaphore.release adds one to the value and wakes a waiter, if there
\* is one, taking the value back on its behalf.
EndTask(t, task, result) ==
    LET waiters == {w \in DOMAIN ing : ing[w].pc = "wait"} IN
    IF waiters = {}
    THEN /\ ing' = [ing EXCEPT ![t] = [task EXCEPT !.pc = "done", !.result = result]]
         /\ upload_semaphore' = upload_semaphore + 1
    ELSE /\ \E w \in waiters :
              ing' = [ing EXCEPT ![t] = [task EXCEPT !.pc = "done", !.result = result],
                                 ![w] = [ing[w] EXCEPT !.pc = "woken"]]
         /\ UNCHANGED upload_semaphore

\* `total_size > self.max_file_size` (line 305)
SizeExceeded_never(total_size) == FALSE
SizeExceeded(total_size) == total_size > MaxFileSize

\* The loop of _stream_download_with_progress (lines 294-306) from chunk i on:
\* each chunk is written and counted, then the size is tested. `chunks` gives
\* the lengths of the pieces of the body in the order they arrive (a piece
\* stands for a run of chunks of at most ChunkSize bytes).
RECURSIVE StreamChunks(_, _, _)
StreamChunks(chunks, i, total_size) ==
    IF i > Len(chunks)
    THEN [file_content |-> TRUE, total_size |-> total_size, received |-> total_size]
    ELSE LET size == total_size + chunks[i] IN
         IF SizeExceeded(size)
         THEN [file_content |-> FALSE, total_size |-> 0, received |-> size]
         ELSE StreamChunks(chunks, i + 1, size)

\* _stream_download_with_progress (lines 283-316): (file_content, total_size),
\* or (None, 0) after any exception; `received` is the count of bytes written.
stream_download_with_progress(status_code, chunks) ==
    IF status_code # 200
    THEN [file_content |-> FALSE, total_size |-> 0, received |-> 0]
    ELSE StreamChunks(chunks, 1, 0)

\* What send_video / send_audio can do in one attempt: return the message, or
\* raise an exception, given by the classes it is an instance of. The classes
\* are those imported at line 10 from telegram.error, where TimedOut and
\* BadRequest are subclasses of NetworkError; the fallback classes of lines
\* 23-27 exist only when the import failed, and then telegram_available is
\* false and nothing is uploaded. {"Exception"} is any other exception (for
\* instance the AttributeError of message.video when it is None).
Sent == {"Message"}
UploadExceptions ==
    { {"RetryAfter", "TelegramError"},
      {"TimedOut", "NetworkError", "TelegramError"},
      {"NetworkError", "TelegramError"},
      {"BadRequest", "NetworkError", "TelegramError"},
      {"TelegramError"},
      {"Exception"} }
UploadOutcomes == {Sent} \cup UploadExceptions

\* except (RetryAfter, TimedOut, NetworkError) (line 358)
CaughtAsRetryable(e) == e \cap {"RetryAfter", "TimedOut", "NetworkError"} # {}
\* except (BadRequest, TelegramError) (line 367)
CaughtAsFatal(e) == e \cap {"BadRequest", "TelegramError"} # {}

\* `attempt < len(self.retry_delays)` (line 359)
CanRetry(attempt) == attempt < Len(RetryDelays)

\* The loop of _professional_upload_with_retry (lines 328-371) from the given
\* attempt on; outcomes[k] is what the k-th call of send_video / send_audio
\* does. `sent` tells whether a file id is returned, `attempts` counts the
\* calls made, `slept` lists the delays slept, `raised` tells whether an
\* exception left the function.
RECURSIVE UploadFrom(_, _, _)
UploadFrom(outcomes, attempt, slept) ==
    IF attempt > Len(RetryDelays)
    THEN [sent |-> FALSE, attempts |-> attempt - 1, slept |-> slept, raised |-> FALSE]
    ELSE LET e == outcomes[attempt] IN
         IF e = Sent
         THEN [sent |-> TRUE, attempts |-> attempt, slept |-> slept, raised |-> FALSE]
         ELSE IF CaughtAsRetryable(e)
         THEN IF CanRetry(attempt)
              THEN UploadFrom(outcomes, attempt + 1, Append(slept, RetryDelays[attempt]))
              ELSE [sent |-> FALSE, attempts |-> attempt, slept |-> slept, raised |-> FALSE]
         ELSE IF CaughtAsFatal(e)
         THEN [sent |-> FALSE, attempts |-> attempt, slept |-> slept, raised |-> FALSE]
         ELSE [sent |-> FALSE, attempts |-> attempt, slept |-> slept, raised |-> TRUE]

professional_upload_with_retry(outcomes) == UploadFrom(outcomes, 1, <<>>)

\* download_and_cache, lines 165-190: the availability test, the semaphore,
\* the duplicate check and the download (_stream_download_with_progress, which
\* touches nothing shared).
BeginIngest(t, video_id, content_type, quality, status_code, chunks) ==
    /\ ing[t].pc = "idle"
    /\ \A u \in Tasks : u < t => ing[u].pc # "idle"
    /\ LET content_hash == generate_content_hash(video_id, content_type, quality)
           task == [ing[t] EXCEPT !.video_id = video_id, !.type = content_type,
                                  !.quality = quality, !.content_hash = content_hash,
                                  !.existing = ActiveWithHash(content_cache, content_hash)]
           download == stream_download_with_progress(status_code, chunks)
       IN IF ~telegram_available
          THEN /\ ing' = [ing EXCEPT ![t] = [task EXCEPT !.pc = "done"]]
               /\ UNCHANGED upload_semaphore
          ELSE /\ upload_semaphore > 0
               /\ IF check_duplicate_by_hash(content_cache, content_hash)
                  THEN /\ ing' = [ing EXCEPT ![t] = [task EXCEPT !.pc = "done"]]
                       /\ UNCHANGED upload_semaphore
                  ELSE IF ~download.file_content
                  THEN /\ ing' = [ing EXCEPT ![t] =
                              [task EXCEPT !.pc = "done", !.received = download.received]]
                       /\ UNCHANGED upload_semaphore
                  ELSE /\ ing' = [ing EXCEPT ![t] =
                              [task EXCEPT !.pc = "upload", !.received = download.received]]
                       /\ upload_semaphore' = upload_semaphore - 1
    /\ UNCHANGED <<content_cache, telegram_files, telegram_available, lk, apiVars>>

\* download_and_cache, lines 192-212: _professional_upload_with_retry (lines
\* 318-371), then, with a file id, _save_professional_cache_entry (lines
\* 402-439) with its insert_one, then the return (None after an exception).
\* The retries touch nothing shared.
UploadAndSave(t, outcomes) ==
    /\ ing[t].pc = "upload"
    /\ LET upload == professional_upload_with_retry(outcomes)
           task == [ing[t] EXCEPT !.attempts = SubSeq(outcomes, 1, upload.attempts),
                                  !.slept = upload.slept]
       IN IF upload.sent
          THEN /\ telegram_files' = telegram_files \cup {FileIdOf(t)}
               /\ content_cache' = content_cache \cup
                      {CacheEntry(t, ing[t].video_id, ing[t].type, ing[t].quality,
                                  FileIdOf(t), ing[t].content_hash)}
               /\ EndTask(t, [task EXCEPT !.telegram_file_id = FileIdOf(t)], FileIdOf(t))
          ELSE /\ EndTask(t, task, NoFile)
               /\ UNCHANGED <<telegram_files, content_cache>>
    /\ UNCHANGED <<telegram_available, lk, apiVars>>

\* The background threads of run_caching_in_thread (api_service.py lines
\* 283-298), each with an event loop of its own, all calling download_and_cache
\* of the one TelegramCache of api_service.py line 15, each for a video of
\* its own.
UploaderVideoIds == <<"v1", "v2", "v3", "v4">>
Uploaders == DOMAIN UploaderVideoIds

\* Semaphore.locked(): the value is 0 or somebody waits.
Locked == upload_semaphore = 0 \/ \E w \in DOMAIN ing : ing[w].pc = "wait"

\* The semaphore is bound to the event loop of another thread (the loop of
\* the first task that had to wait).
BoundElsewhere(t) == \E w \in DOMAIN ing : w # t /\ ing[w].sem_loop

\* `async with self.upload_semaphore` (line 169) in thread t, first half of
\* Semaphore.acquire: the test of locked(). When locked, the task waits on a
\* future of its loop, or RuntimeError leaves download_and_cache when the
\* semaphore is bound to another loop. asyncio's semaphore takes no lock:
\* other threads run between this test and the decrement.
AcquireTest(t) ==
    /\ ing[t].pc = "idle"
    /\ \A u \in DOMAIN ing : u < t => ing[u].pc # "idle"
    /\ telegram_available
    /\ IF ~Locked
       THEN ing' = [ing EXCEPT ![t] = [ing[t] EXCEPT !.pc = "take"]]
       ELSE IF BoundElsewhere(t)
       THEN ing' = [ing EXCEPT ![t] = [ing[t] EXCEPT !.pc = "done"]]
       ELSE ing' = [ing EXCEPT ![t] = [ing[t] EXCEPT !.pc = "wait", !.sem_loop = TRUE]]
    /\ UNCHANGED <<upload_semaphore, content_cache, telegram_files, telegram_available,
                   lk, apiVars>>

\* Second half of Semaphore.acquire: `self._value -= 1`.
AcquireTake(t) ==
    /\ ing[t].pc = "take"
    /\ ing' = [ing EXCEPT ![t] = [ing[t] EXCEPT !.pc = "body"]]
    /\ upload_semaphore' = upload_semaphore - 1
    /\ UNCHANGED <<content_cache, telegram_files, telegram_available, lk, apiVars>>

\* The loop of a woken waiter runs it again: acquire returns.
AcquireResume(t) ==
    /\ ing[t].pc = "woken"
    /\ ing' = [ing EXCEPT ![t] = [ing[t] EXCEPT !.pc = "body"]]
    /\ UNCHANGED <<upload_semaphore, content_cache, telegram_files, telegram_available,
                   lk, apiVars>>

\* download_and_cache, lines 170-190, under the semaphore: the duplicate
\* check and the download.
DownloadUnderSemaphore(t, content_type, quality, status_code, chunks) ==
    /\ ing[t].pc = "body"
    /\ LET content_hash == generate_content_hash(UploaderVideoIds[t], content_type, quality)
           task == [ing[t] EXCEPT !.video_id = UploaderVideoIds[t], !.type = content_type,
                                  !.quality = quality, !.content_hash = content_hash,
                                  !.existing = ActiveWithHash(content_cache, content_hash)]
           download == stream_download_with_progress(status_code, chunks)
       IN IF check_duplicate_by_hash(content_cache, content_hash) \/ ~download.file_content
          THEN EndTask(t, [task EXCEPT !.received = download.received], NoFile)
          ELSE /\ ing' = [ing EXCEPT ![t] =
                      [task EXCEPT !.pc = "upload", !.received = download.received]]
               /\ UNCHANGED upload_semaphore
    /\ UNCHANGED <<content_cache, telegram_files, telegram_available, lk, apiVars>>

\* The case of the quality fallback: no active document of the asked quality,
\* and an active document of another quality whose file Telegram still holds.
QualityFallbackCase(cache, files, youtube_id, content_type, quality) ==
    /\ HasFallback(content_type, quality)
    /\ PrimaryMatches(cache, youtube_id, content_type, quality) = {}
    /\ \E d \in FallbackMatches(cache, youtube_id, content_type) :
          d.telegram_file_id \in files

\* check_cache, lines 93-103: the exact query. find_one gives any matching
\* document (no sort is asked for).
LookupFind(l, youtube_id, content_type, quality) ==
    /\ lk[l].pc = "idle"
    /\ \A m \in Lookups : m < l => lk[m].pc # "idle"
    /\ LET matches == PrimaryMatches(content_cache, youtube_id, content_type, quality)
           call == [lk[l] EXCEPT !.youtube_id = youtube_id,
                                 !.content_type = content_type,
                                 !.quality = quality,
                                 !.fallback_case =
                                     QualityFallbackCase(content_cache, telegram_files,
                                                         youtube_id, content_type, quality)]
       IN IF matches # {}
          THEN \E d \in matches :
                 lk' = [lk EXCEPT ![l] = [call EXCEPT !.pc = "verify", !.cached_content = d]]
          ELSE IF HasFallback(content_type, quality)
          THEN lk' = [lk EXCEPT ![l] = [call EXCEPT !.pc = "fallback"]]
          ELSE lk' = [lk EXCEPT ![l] = [call EXCEPT !.pc = "done"]]
    /\ UNCHANGED <<content_cache, telegram_files, telegram_available, upload_semaphore,
                   ing, apiVars>>

\* check_cache, lines 105-114: the query without quality.
LookupFallback(l) ==
    /\ lk[l].pc = "fallback"
    /\ LET matches == FallbackMatches(content_cache, lk[l].youtube_id, lk[l].content_type)
       IN IF matches # {}
          THEN \E d \in matches :
                 lk' = [lk EXCEPT ![l].pc = "verify", ![l].cached_content = d]
          ELSE lk' = [lk EXCEPT ![l].pc = "done"]
    /\ UNCHANGED <<content_cache, telegram_files, telegram_available, upload_semaphore,
                   ing, apiVars>>

\* How the probe of a file ends.
ProbeOutcome(available, files, telegram_file_id, call_fails) ==
    IF verify_telegram_file(available, files, telegram_file_id, call_fails) THEN "ok"
    ELSE IF ~available THEN "unavailable"
    ELSE IF telegram_file_id \notin files THEN "gone"
    ELSE "error"

\* check_cache, lines 116-156: the liveness probe of the selected document,
\* the update of the document and the return.
VerifyAndUpdate(l, call_fails) ==
    /\ lk[l].pc = "verify"
    /\ LET cached_content == lk[l].cached_content
           probe == ProbeOutcome(telegram_available, telegram_files,
                                 cached_content.telegram_file_id, call_fails)
       IN IF probe = "ok"
          THEN /\ content_cache' = TouchEntry(content_cache, cached_content._id)
               /\ lk' = [lk EXCEPT ![l].pc = "done", ![l].probe = probe,
                                   ![l].result = HitResult(cached_content)]
          ELSE /\ content_cache' = MarkInactive(content_cache, cached_content._id)
               /\ lk' = [lk EXCEPT ![l].pc = "done", ![l].probe = probe]
    /\ UNCHANGED <<telegram_files, telegram_available, upload_semaphore, ing, apiVars>>

\* A stored file is deleted from the Telegram channel.
FileDeleted(f) ==
    /\ f \in telegram_files
    /\ telegram_files' = telegram_files \ {f}
    /\ UNCHANGED <<content_cache, telegram_available, upload_semaphore, ing, lk, apiVars>>

\* The downloads met: a body of exactly MaxFileSize bytes, one a chunk
\* longer, and a response that is not a 200.
Downloads ==
    { [status_code |-> 200, chunks |-> <<MaxFileSize - ChunkSize, ChunkSize>>],
      [status_code |-> 200, chunks |-> <<MaxFileSize - ChunkSize, ChunkSize, ChunkSize>>],
      [status_code |-> 404, chunks |-> <<>>] }

\* The uploads met while the index is exercised: sent at once, or refused.
UploadRuns == { <<Sent>>, <<{"TelegramError"}>> }

\* The cache on its own: an empty index, Telegram set up or not, no request
\* at the gate.
InitCache ==
    /\ api_keys = [k \in StoredKeys |-> APIKeyDoc(k = "k1", 1)]
    /\ today = 0
    /\ now = 0
    /\ concurrent_users = {}
    /\ req = [p \in Requests |-> IdleRequest]
    /\ content_cache = {}
    /\ telegram_files = {}
    /\ telegram_available \in BOOLEAN
    /\ upload_semaphore = MaxConcurrentUploads
    /\ ing = [t \in Tasks |-> IdleTask]
    /\ lk = [l \in Lookups |-> IdleLookup]

NextCache ==
    \/ \E t \in Tasks, v \in VideoIds, c \in FileTypes, d \in Downloads :
          \E q \in QualitiesOf(c) : BeginIngest(t, v, c, q, d.status_code, d.chunks)
    \/ \E t \in Tasks, outcomes \in UploadRuns : UploadAndSave(t, outcomes)
    \/ \E l \in Lookups, v \in VideoIds, c \in FileTypes :
          \E q \in LookupQualitiesOf(c) : LookupFind(l, v, c, q)
    \/ \E l \in Lookups : LookupFallback(l)
    \/ \E l \in Lookups, call_fails \in BOOLEAN : VerifyAndUpdate(l, call_fails)
    \/ \E f \in telegram_files : FileDeleted(f)

SpecCache == InitCache /\ [][NextCache]_vars

\* The gate on its own: key k1 active with some daily limit, key k2
\* deactivated, an empty index and no ingestion or lookup.
Init ==
    /\ \E l1 \in 1..MaxLimit :
         api_keys = [k \in StoredKeys |->
                        IF k = "k1" THEN APIKeyDoc(TRUE, l1) ELSE APIKeyDoc(FALSE, l1)]
    /\ today = 0
    /\ now = 0
    /\ concurrent_users = {}
    /\ req = [p \in Requests |-> IdleRequest]
    /\ content_cache = {}
    /\ telegram_files = {}
    /\ telegram_available = TRUE
    /\ upload_semaphore = MaxConcurrentUploads
    /\ ing = [t \in Tasks |-> IdleTask]
    /\ lk = [l \in Lookups |-> IdleLookup]

Next ==
    \/ \E p \in Requests, e \in Endpoints, k \in PresentedKeys : BeforeRequest(p, e, k)
    \/ \E p \in Requests : FindOne(p)
    \/ \E p \in Requests : CheckLimit(p)
    \/ \E p \in Requests : UpdateOne(p)
    \/ \E p \in Requests, e \in StoreErrors, applied \in BOOLEAN : StoreError(p, e, applied)
    \/ \E p \in Requests : GetStatus(p)
    \/ \E p \in Requests, u \in Urls : GetContent(p, u, TRUE)
    \/ Midnight

Spec == Init /\ [][Next]_vars

\* The URLs given to the orchestrator: the accepted shapes, a watch URL with
\* a query, and URLs no shape matches (another site, an unsupported path, a
\* shape without identifier).
SourceUrls ==
    { ValidUrl,
      <<"https://", "youtube.com/watch?v=", "abc123", "&", "t=1">>,
      <<"https://", "youtube.com/v/", "abc123">>,
      <<"https://", "example.com/", "abc123">>,
      <<"https://", "youtube.com/shorts/", "abc123">>,
      <<"https://", "youtu.be/">> }

\* The orchestrator beside the ingestion: requests with key k1 pass the gate
\* and reach get_video / get_audio while download_and_cache tasks fill the
\* index and the channel loses files.
InitOrch ==
    /\ api_keys = [k \in StoredKeys |-> APIKeyDoc(k = "k1", MaxLimit)]
    /\ today = 0
    /\ now = 0
    /\ concurrent_users = {}
    /\ req = [p \in Requests |-> IdleRequest]
    /\ content_cache = {}
    /\ telegram_files = {}
    /\ telegram_available = TRUE
    /\ upload_semaphore = MaxConcurrentUploads
    /\ ing = [t \in Tasks |-> IdleTask]
    /\ lk = [l \in Lookups |-> IdleLookup]

NextOrch ==
    \/ \E p \in Requests, e \in ContentEndpoints : BeforeRequest(p, e, "k1")
    \/ \E p \in Requests : FindOne(p)
    \/ \E p \in Requests : CheckLimit(p)
    \/ \E p \in Requests : UpdateOne(p)
    \/ \E p \in Requests, u \in SourceUrls, upstream_ok \in BOOLEAN :
          GetContent(p, u, upstream_ok)
    \/ \E t \in Tasks, v \in VideoIds, c \in FileTypes, d \in Downloads :
          \E q \in QualitiesOf(c) : BeginIngest(t, v, c, q, d.status_code, d.chunks)
    \/ \E t \in Tasks, outcomes \in UploadRuns : UploadAndSave(t, outcomes)
    \/ \E f \in telegram_files : FileDeleted(f)

SpecOrch == InitOrch /\ [][NextOrch]_vars

\* The task that runs alone in the upload's own specification.
FirstTask == Least(Tasks)

\* What the attempts of one upload can do, one outcome for each entry of the
\* retry schedule.
OutcomeRuns == [1..Len(RetryDelays) -> UploadOutcomes]

\* One ingestion on its own, its download within the limit, over every run
\* of upload outcomes.
InitUpload ==
    /\ api_keys = [k \in StoredKeys |-> APIKeyDoc(k = "k1", 1)]
    /\ today = 0
    /\ now = 0
    /\ concurrent_users = {}
    /\ req = [p \in Requests |-> IdleRequest]
    /\ content_cache = {}
    /\ telegram_files = {}
    /\ telegram_available = TRUE
    /\ upload_semaphore = MaxConcurrentUploads
    /\ ing = [t \in Tasks |-> IdleTask]
    /\ lk = [l \in Lookups |-> IdleLookup]

NextUpload ==
    \/ \E v \in VideoIds, c \in FileTypes :
          \E q \in QualitiesOf(c) : BeginIngest(FirstTask, v, c, q, 200, <<ChunkSize>>)
    \/ \E outcomes \in OutcomeRuns : UploadAndSave(FirstTask, outcomes)

SpecUpload == InitUpload /\ [][NextUpload]_vars

\* The semaphore shared by the background threads: one more thread than the
\* semaphore has places, videos of one kind, downloads that succeed or not.
InitSemaphore ==
    /\ api_keys = [k \in StoredKeys |-> APIKeyDoc(k = "k1", 1)]
    /\ today = 0
    /\ now = 0
    /\ concurrent_users = {}
    /\ req = [p \in Requests |-> IdleRequest]
    /\ content_cache = {}
    /\ telegram_files = {}
    /\ telegram_available = TRUE
    /\ upload_semaphore = MaxConcurrentUploads
    /\ ing = [t \in Uploaders |-> IdleTask]
    /\ lk = [l \in Lookups |-> IdleLookup]

NextSemaphore ==
    \/ \E t \in Uploaders : AcquireTest(t)
    \/ \E t \in Uploaders : AcquireTake(t)
    \/ \E t \in Uploaders : AcquireResume(t)
    \/ \E t \in Uploaders, status_code \in {200, 404} :
          DownloadUnderSemaphore(t, "video", "360", status_code, <<ChunkSize>>)
    \/ \E t \in Uploaders, outcomes \in UploadRuns : UploadAndSave(t, outcomes)

SpecSemaphore == InitSemaphore /\ [][NextSemaphore]_vars

\* The callers of check_cache that look one record up at the same time: two
\* more than the index's own specification has.
HitLookups == 1..(NumLookups + 2)

\* Lookups of one ingested video running together, over the days, while the
\* channel may lose the file.
InitHits ==
    /\ api_keys = [k \in StoredKeys |-> APIKeyDoc(k = "k1", 1)]
    /\ today = 0
    /\ now = 0
    /\ concurrent_users = {}
    /\ req = [p \in Requests |-> IdleRequest]
    /\ content_cache = {}
    /\ telegram_files = {}
    /\ telegram_available = TRUE
    /\ upload_semaphore = MaxConcurrentUploads
    /\ ing = [t \in Tasks |-> IdleTask]
    /\ lk = [l \in HitLookups |-> IdleLookup]

NextHits ==
    \/ \E v \in VideoIds : BeginIngest(FirstTask, v, "video", "720", 200, <<ChunkSize>>)
    \/ \E outcomes \in UploadRuns : UploadAndSave(FirstTask, outcomes)
    \/ \E l \in HitLookups, v \in VideoIds : LookupFind(l, v, "video", NoneQuality)
    \/ \E l \in HitLookups, call_fails \in BOOLEAN : VerifyAndUpdate(l, call_fails)
    \/ \E f \in telegram_files : FileDeleted(f)
    \/ Midnight

SpecHits == InitHits /\ [][NextHits]_vars

(***************************************************************************)
(* Cleanup of the index: professional_cleanup_cache                        *)
(***************************************************************************)
\* 'access_count': {'$lt': 5} (line 454)
LowAccessThreshold == 5

\* cleanup_query (lines 450-461) for a document, with cutoff_date and
\* inactive_cutoff as computed at lines 447-448; times are in days.
cleanup_query(d, utcnow, days, max_inactive_days) ==
    \/ /\ d.created_at < utcnow - days
       /\ d.access_count < LowAccessThreshold
    \/ /\ d.status = "inactive"
       /\ d.last_verified < utcnow - max_inactive_days

\* TelegramCache.professional_cleanup_cache (lines 441-480): delete_many of
\* the documents matching cleanup_query.
professional_cleanup_cache(days, max_inactive_days) ==
    /\ content_cache' =
          {d \in content_cache : ~cleanup_query(d, today, days, max_inactive_days)}
    /\ UNCHANGED <<telegram_files, telegram_available, upload_semaphore, ing, lk, apiVars>>

\* The (days, max_inactive_days) cleanup is called with.
CleanupArgs == {<<2, 1>>, <<1, 1>>}

\* A day passes.
DayPasses ==
    /\ today < MaxAgeDays
    /\ today' = today + 1
    /\ UNCHANGED <<api_keys, now, concurrent_users, req, cacheVars>>

\* The caller of a finished lookup makes another check_cache call.
LookupAgain(l) ==
    /\ lk[l].pc = "done"
    /\ \A d \in content_cache : d.access_count <= LowAccessThreshold
    /\ lk' = [lk EXCEPT ![l] = IdleLookup]
    /\ UNCHANGED <<content_cache, telegram_files, telegram_available, upload_semaphore,
                   ing, apiVars>>

\* The index over the days: one ingestion, lookups one after another, files
\* lost by the channel, and cleanups.
InitCleanup ==
    /\ api_keys = [k \in StoredKeys |-> APIKeyDoc(k = "k1", 1)]
    /\ today = 0
    /\ now = 0
    /\ concurrent_users = {}
    /\ req = [p \in Requests |-> IdleRequest]
    /\ content_cache = {}
    /\ telegram_files = {}
    /\ telegram_available = TRUE
    /\ upload_semaphore = MaxConcurrentUploads
    /\ ing = [t \in Tasks |-> IdleTask]
    /\ lk = [l \in Lookups |-> IdleLookup]

NextCleanup ==
    \/ \E v \in VideoIds : BeginIngest(FirstTask, v, "video", "360", 200, <<ChunkSize>>)
    \/ \E outcomes \in UploadRuns : UploadAndSave(FirstTask, outcomes)
    \/ \E l \in Lookups, v \in VideoIds : LookupFind(l, v, "video", NoneQuality)
    \/ \E l \in Lookups, call_fails \in BOOLEAN : VerifyAndUpdate(l, call_fails)
    \/ \E l \in Lookups : LookupAgain(l)
    \/ \E f \in telegram_files : FileDeleted(f)
    \/ DayPasses
    \/ \E a \in CleanupArgs : professional_cleanup_cache(a[1], a[2])

SpecCleanup == InitCleanup /\ [][NextCleanup]_vars

(***************************************************************************)
(* The fetch stage: api_service.py lines 263-314 and youtube_downloader.py *)
(***************************************************************************)
\* quality_priorities of _get_best_quality (lines 362-366), best first.
VideoPriorities == <<"1080", "720", "480", "360">>
AudioPriorities == <<"320", "256", "192", "128">>

\* APIService._get_best_quality (lines 358-373): the head of the list of the
\* content type; neither the URL nor the client's quality is looked at.
get_best_quality(youtube_url, content_type) ==
    IF content_type = "video" THEN VideoPriorities[1] ELSE AudioPriorities[1]

\* What the metadata call of get_video_info can meet: post raises, the body
\* is not JSON, the body says status false, the body has no 'data', 'data'
\* cannot be decrypted, or 'data' decrypts to the video's metadata.
MetaOutcomes ==
    {"post_raises", "not_json", "status_false", "no_data", "undecryptable", "decrypted"}

\* The dictionary decrypt_data returns from its except clause (lines 79-86).
MockData ==
    [title |-> <<"Sample Video">>, durationLabel |-> "3:45",
     thumbnail |-> <<"https://via.placeholder.com/480x360">>, key |-> <<"sample_key">>]

\* What the provider's 'data' holds for a video.
ProviderData(video_id) ==
    [title |-> <<"title of", video_id>>, durationLabel |-> "4:20",
     thumbnail |-> <<"thumbnail of", video_id>>, key |-> <<"key of", video_id>>]

\* YouTubeDownloader.decrypt_data (lines 45-86): the decrypted JSON, or the
\* mock dictionary when anything fails.
decrypt_data(video_id, meta) ==
    IF meta = "decrypted" THEN ProviderData(video_id) ELSE MockData

\* The dictionary of get_video_info's except clause (lines 133-141).
FallbackInfo(video_id) ==
    [title |-> <<"Video", video_id>>, duration |-> "0:00",
     thumbnail |-> <<"https://img.youtube.com/vi/", video_id, "/maxresdefault.jpg">>,
     video_key |-> <<video_id>>]

\* YouTubeDownloader.get_video_info (lines 106-141) for a URL of an accepted
\* shape: an exception before decrypt_data leads to the except clause;
\* decrypt_data itself never raises.
get_video_info(youtube_url, meta) ==
    IF meta \in {"post_raises", "not_json", "status_false", "no_data"}
    THEN FallbackInfo(extract_video_id(youtube_url).video_id)
    ELSE LET decrypted_data == decrypt_data(extract_video_id(youtube_url).video_id, meta) IN
         [title |-> decrypted_data.title, duration |-> decrypted_data.durationLabel,
          thumbnail |-> decrypted_data.thumbnail, video_key |-> decrypted_data.key]

\* `for attempt in range(5)` of get_download_url (line 147).
DownloadUrlAttempts == 5

\* What one attempt of get_download_url can meet: a body with a downloadUrl,
\* a body without, or an exception.
AttemptOutcomes == {"url", "no_url", "raises"}

\* YouTubeDownloader.get_download_url (lines 143-169): the URL of the first
\* attempt that gives one, or the exception of line 169.
get_download_url(video_key, quality, download_type, attempts) ==
    IF \E i \in 1..DownloadUrlAttempts : attempts[i] = "url"
    THEN [raised |-> FALSE, url |-> <<video_key, quality, download_type>>]
    ELSE [raised |-> TRUE, url |-> <<>>]

\* YouTubeDownloader.download_content (lines 186-215).
download_content(youtube_url, quality, content_type, meta, attempts) ==
    LET info == get_video_info(youtube_url, meta)
        download_url == get_download_url(info.video_key, quality, content_type, attempts)
    IN IF download_url.raised
       THEN ErrorResult("Failed to get download URL after 5 attempts")
       ELSE [status |-> TRUE, title |-> info.title, duration |-> info.duration,
             thumbnail |-> info.thumbnail, download_url |-> download_url.url,
             video_id |-> extract_video_id(youtube_url).video_id,
             quality |-> quality, type |-> content_type]

\* The video_info _cache_content_background gives to download_and_cache
\* (lines 407-416): the quality is the `quality` argument of
\* process_youtube_request (line 288).
BackgroundVideoInfo(download_result, content_type, quality) ==
    [video_id |-> download_result.video_id, title |-> download_result.title,
     type |-> content_type, quality |-> quality]

\* Lines 263-314 of process_youtube_request for a request of the given
\* quality: the quality asked of the provider, the provider's result, whether
\* the caching thread is started and with which video_info, and the answer.
FetchStage(youtube_url, content_type, quality, meta, attempts) ==
    LET best_quality == get_best_quality(youtube_url, content_type)
        download_result ==
            download_content(youtube_url, best_quality, content_type, meta, attempts)
    IN IF ~download_result.status
       THEN [quality |-> quality, best_quality |-> best_quality,
             download_result |-> download_result, caching |-> FALSE,
             video_info |-> None, result |-> download_result]
       ELSE [quality |-> quality, best_quality |-> best_quality,
             download_result |-> download_result, caching |-> TRUE,
             video_info |-> BackgroundVideoInfo(download_result, content_type, quality),
             result |-> [status |-> TRUE, cached |-> FALSE, source |-> "fresh_download",
                         video_id |-> extract_video_id(youtube_url).video_id,
                         title |-> download_result.title,
                         duration |-> download_result.duration,
                         download_url |-> download_result.download_url,
                         file_type |-> content_type,
                         quality |-> IF content_type = "video" THEN quality
                                     ELSE NoneQuality]]

\* The qualities clients ask for (the default of get_video is '360').
RequestedQualities == {"360", "480", "720", "1080"}

\* The URLs given to the fetch stage: those of the gate's model that
\* extract_video_id accepts (line 169 has passed).
AcceptedUrls == {u \in Urls \ {NoUrl} : ~extract_video_id(u).raised}

\* The runs of get_download_url's attempts; the attempts after the first
\* URL are never made.
AttemptRuns ==
    {r \in [1..DownloadUrlAttempts -> AttemptOutcomes] :
        \A i \in 1..(DownloadUrlAttempts - 1) : r[i] = "url" => r[i + 1] = "url"}

\* The fetch stage run for request p; what the metadata call met and what
\* get_video_info returned are kept beside the stage's result.
Fetch(p, youtube_url, content_type, quality, meta, attempts) ==
    /\ req[p].pc = "idle"
    /\ \A q \in Requests : q < p => req[q].pc # "idle"
    /\ req' = [req EXCEPT ![p] =
                  [req[p] EXCEPT !.pc = "fetched",
                                 !.youtube_url = youtube_url,
                                 !.endpoint = IF content_type = "audio"
                                              THEN "api.get_audio" ELSE "api.get_video",
                                 !.fetch =
                                    SetFields(FetchStage(youtube_url, content_type,
                                                         quality, meta, attempts),
                                              [meta |-> meta,
                                               info |-> get_video_info(youtube_url,
                                                                       meta)])]]
    /\ UNCHANGED <<api_keys, today, now, concurrent_users, cacheVars>>

\* The caching thread of request p (lines 283-298) enters download_and_cache
\* with the video_info it was given.
StartCaching(p, status_code, chunks) ==
    /\ p \in Tasks
    /\ req[p].pc = "fetched"
    /\ req[p].fetch.caching
    /\ BeginIngest(p, req[p].fetch.video_info.video_id, req[p].fetch.video_info.type,
                   req[p].fetch.video_info.quality, status_code, chunks)

\* The fetch stage on its own, over the qualities asked for and what the
\* provider answers, followed by the ingestion it starts.
InitFetch ==
    /\ api_keys = [k \in StoredKeys |-> APIKeyDoc(k = "k1", 1)]
    /\ today = 0
    /\ now = 0
    /\ concurrent_users = {}
    /\ req = [p \in Requests |-> IdleRequest]
    /\ content_cache = {}
    /\ telegram_files = {}
    /\ telegram_available = TRUE
    /\ upload_semaphore = MaxConcurrentUploads
    /\ ing = [t \in Tasks |-> IdleTask]
    /\ lk = [l \in Lookups |-> IdleLookup]

NextFetch ==
    \/ \E p \in Requests, u \in AcceptedUrls, c \in FileTypes, q \in RequestedQualities :
          \E meta \in MetaOutcomes, attempts \in AttemptRuns :
             Fetch(p, u, c, q, meta, attempts)
    \/ \E p \in Requests : StartCaching(p, 200, <<ChunkSize>>)
    \/ \E t \in Tasks, outcomes \in UploadRuns : UploadAndSave(t, outcomes)

SpecFetch == InitFetch /\ [][NextFetch]_vars

(***************************************************************************)
(* Properties of the rate limiter and of the request gate.                 *)
(***************************************************************************)
\* check_and_update_daily_limit has returned to request p.
Returned(p) == req[p].rate_check # None

\* The call of request p passed the key lookup and read the date.
ReadKey(p) == req[p].key_data # None /\ req[p].pc \notin {"idle", "find_one", "check_limit"}

\* The key document p read had one request left today.
SawRemainingOne(p) ==
    /\ ReadKey(p)
    /\ Get(req[p].key_data, "last_reset_date", req[p].current_date) = req[p].current_date
    /\ Get(req[p].key_data, "daily_requests", 0) = DailyLimitOf(req[p].key_data) - 1

\* C1: of two concurrent admit calls on a key with one request left today,
\* neither of which met a store error, exactly one is allowed and one is
\* refused.
C1_AtomicAdmission ==
    \A p, q \in Requests :
        (/\ p < q
         /\ req[p].api_key = req[q].api_key
         /\ Returned(p) /\ Returned(q)
         /\ ~req[p].store_raised /\ ~req[q].store_raised
         /\ SawRemainingOne(p) /\ SawRemainingOne(q))
        => (req[p].rate_check.allowed # req[q].rate_check.allowed)

\* C2: the stored daily_requests of a key never exceeds its daily limit.
C2_WithinDailyLimit ==
    \A k \in DOMAIN api_keys :
        Get(api_keys[k], "daily_requests", 0) <= DailyLimitOf(api_keys[k])

C2_Witness ==
    \E k \in DOMAIN api_keys :
        /\ Get(api_keys[k], "usage_count", 0) >= 2
        /\ Get(api_keys[k], "daily_requests", 0) = DailyLimitOf(api_keys[k])
        /\ \E p, q \in Requests :
              /\ p # q
              /\ req[p].api_key = k /\ req[q].api_key = k
              /\ Returned(p) /\ req[p].rate_check.allowed
              /\ Returned(q) /\ req[q].rate_check.allowed

\* The key document p read was last reset on an earlier day and was at its limit.
RolloverAtLimit(p) ==
    /\ req[p].key_data # None
    /\ "last_reset_date" \in DOMAIN req[p].key_data
    /\ req[p].key_data.last_reset_date < req[p].current_date
    /\ DailyLimitOf(req[p].key_data) >= 1
    /\ Get(req[p].key_data, "daily_requests", 0) = DailyLimitOf(req[p].key_data)

InAdmit == {"check_limit", "update_one"}

\* C3: an admit call that finds the key at its limit with a last reset date
\* before today, and whose store calls succeed, is allowed, and its write
\* leaves daily_requests = 1 and last_reset_date = today (the date the call
\* computed) in the stored document.
C3_MidnightRollover ==
    [][\A p \in Requests :
         (/\ req[p].pc \in InAdmit
          /\ req'[p].pc \notin InAdmit
          /\ ~req'[p].store_raised
          /\ RolloverAtLimit(p)')
         => (/\ req'[p].rate_check.allowed
             /\ req'[p].rate_check.daily_requests = 1
             /\ api_keys'[req[p].api_key].daily_requests = 1
             /\ api_keys'[req[p].api_key].last_reset_date = req'[p].current_date)]_vars

C3_Witness ==
    \E p \in Requests :
        /\ Returned(p)
        /\ RolloverAtLimit(p)
        /\ req[p].rate_check.allowed
        /\ api_keys[req[p].api_key].daily_requests = 1
        /\ api_keys[req[p].api_key].last_reset_date = today

\* The key document p read was at its daily limit for the day of the call.
AtLimitToday(p) ==
    /\ ReadKey(p)
    /\ Get(req[p].key_data, "last_reset_date", req[p].current_date) = req[p].current_date
    /\ Get(req[p].key_data, "daily_requests", 0) >= DailyLimitOf(req[p].key_data)

\* C4: a content request with an active key at its daily limit for today is
\* answered 429 with remaining 0 and reset_at the next midnight, and the
\* orchestrator is not called.
C4_LimitReached429 ==
    \A p \in Requests :
        (/\ req[p].pc = "done"
         /\ req[p].endpoint \in ContentEndpoints
         /\ req[p].api_key # NoKey
         /\ AtLimitToday(p))
        => (/\ req[p].response.code = 429
            /\ req[p].response.remaining = 0
            /\ req[p].response.reset_at =
                   [kind |-> "midnight", day |-> req[p].current_date + 1]
            /\ ~req[p].orchestrated)

C4_Witness ==
    \E p \in Requests :
        /\ req[p].pc = "done"
        /\ req[p].endpoint \in ContentEndpoints
        /\ AtLimitToday(p)
        /\ req[p].response.code = 429

\* C5: a content request without API key is answered 401 "API key required"
\* in one step that calls neither the rate limiter nor the orchestrator,
\* registers no session and changes no stored key.
C5_MissingKey401 ==
    [][\A p \in Requests :
         (/\ req'[p] # req[p]
          /\ req'[p].endpoint \in ContentEndpoints
          /\ req'[p].api_key = NoKey)
         => (/\ req'[p].pc = "done"
             /\ req'[p].response.code = 401
             /\ req'[p].response.error = "API key required"
             /\ req'[p].rate_check = None
             /\ req'[p].key_data = None
             /\ req'[p].session_id = NoSession
             /\ ~req'[p].orchestrated
             /\ UNCHANGED <<api_keys, concurrent_users>>)]_vars

C5_Witness ==
    \E p \in Requests :
        /\ req[p].pc = "done"
        /\ req[p].endpoint \in ContentEndpoints
        /\ req[p].api_key = NoKey
        /\ req[p].response.code = 401

\* The key is stored and active.
KnownActive(k) == k \in DOMAIN api_keys /\ api_keys[k].is_active

\* C6: a request to any /api/v1 endpoint, /status included, with an API key
\* that is not a known active key is answered 401 (store errors aside).
C6_InvalidKey401 ==
    \A p \in Requests :
        (/\ req[p].pc = "done"
         /\ req[p].api_key # NoKey
         /\ ~req[p].store_raised
         /\ ~KnownActive(req[p].api_key))
        => req[p].response.code = 401

(***************************************************************************)
(* Cache index: lookup and ingestion                                       *)
(***************************************************************************)
\* No two active records of the index have the same contentHash.
OneActivePerHash(cache) ==
    \A d1, d2 \in cache :
       ( /\ d1.status = "active"
         /\ d2.status = "active"
         /\ d1.content_hash = d2.content_hash )
       => d1 = d2

\* The lookup l returns in this step.
LookupReturns(l) == lk[l].pc # "done" /\ lk'[l].pc = "done"

\* C7: a lookup of (contentId, video, q) for which no active record of
\* quality q exists while an active record of another quality with a live
\* stored object exists (when the lookup starts and still when it returns),
\* over an index without duplicate hashes and with a probe call that does
\* not itself fail, returns a record of another quality and not a miss.
C7_QualityFallback ==
    [][\A l \in Lookups :
          ( /\ LookupReturns(l)
            /\ lk[l].fallback_case
            /\ QualityFallbackCase(content_cache, telegram_files, lk[l].youtube_id,
                                   lk[l].content_type, lk[l].quality)
            /\ OneActivePerHash(content_cache)
            /\ lk'[l].probe # "error" )
          => /\ lk'[l].result # None
             /\ lk'[l].cached_content.quality # lk[l].quality]_vars

\* The lookup l ended after its probe of the selected record failed.
ProbeFailed(l) ==
    /\ lk[l].pc = "done"
    /\ lk[l].cached_content # None
    /\ lk[l].probe # "ok"

\* C8: when check_cache selected a record whose file fails the liveness
\* probe, the record is inactive and the caller gets None; a lookup that
\* returns a file reference returns the one it probed with success.
C8_SelfHealingLookup ==
    \A l \in Lookups :
       /\ ProbeFailed(l) =>
             /\ lk[l].result = None
             /\ \A d \in content_cache :
                   d._id = lk[l].cached_content._id => d.status = "inactive"
       /\ (lk[l].pc = "done" /\ lk[l].result # None) =>
             /\ lk[l].probe = "ok"
             /\ lk[l].result.telegram_file_id = lk[l].cached_content.telegram_file_id

\* C8, its case: a lookup selected a record whose file is gone from
\* Telegram, the record is stored as inactive and the lookup gave None.
C8_Witness ==
    \E l \in Lookups :
       /\ ProbeFailed(l)
       /\ lk[l].probe = "gone"
       /\ lk[l].result = None
       /\ \E d \in content_cache :
             d._id = lk[l].cached_content._id /\ d.status = "inactive"

\* No ingestion other than t is under way.
Sequential(t) == \A u \in Tasks \ {t} : ing[u].pc \in {"idle", "done"}

\* C9: an ingestion run in sequence after one that stored an active record
\* of the same contentHash leaves exactly one active record of that hash,
\* inserts nothing, uploads nothing, and returns the existing record.
C9_CacheIdempotence ==
    [][\A t \in Tasks :
          ( /\ ing[t].pc = "idle"
            /\ ing'[t].pc = "done"
            /\ telegram_available
            /\ Sequential(t)
            /\ Cardinality(ing'[t].existing) = 1 )
          => /\ Cardinality(ActiveWithHash(content_cache', ing'[t].content_hash)) = 1
             /\ content_cache' = content_cache
             /\ telegram_files' = telegram_files
             /\ \E d \in ing'[t].existing :
                   ing'[t].result = d.telegram_file_id]_vars

\* C10: whatever the interleaving of the ingestions, at most one active
\* record exists for a contentHash.
C10_OneActivePerHash == OneActivePerHash(content_cache)

(***************************************************************************)
(* Ingestion: download, upload and the semaphore                           *)
(***************************************************************************)
\* C11: an ingestion whose download wrote more than MaxFileSize bytes has
\* ended without a result: it made no upload attempt, holds no file id, and
\* no record of it is in the index.
C11_SizeCeiling ==
    \A t \in Tasks :
       ing[t].received > MaxFileSize
       => /\ ing[t].pc = "done"
          /\ ing[t].result = NoFile
          /\ ing[t].attempts = <<>>
          /\ ing[t].telegram_file_id = NoFile
          /\ FileIdOf(t) \notin telegram_files
          /\ \A d \in content_cache : d._id # t

\* C11, its case: an ingestion passed the duplicate check and its download
\* went over MaxFileSize by one chunk.
C11_Witness ==
    \E t \in Tasks :
       /\ ing[t].pc = "done"
       /\ ing[t].existing = {}
       /\ ing[t].received = MaxFileSize + ChunkSize


(***************************************************************************)
(* Properties of the orchestrator (process_youtube_request).               *)
(***************************************************************************)
\* Request p is answered by get_video / get_audio in this step.
Answers(p) == req[p].pc = "handler" /\ req'[p].pc = "done"

\* The URL of the request answered in this step has an accepted shape.
AcceptedUrl(p) ==
    /\ req'[p].youtube_url # NoUrl
    /\ ~extract_video_id(req'[p].youtube_url).raised

\* The records of the content request p asks for, when the request arrives.
RecordsFor(p) ==
    {d \in content_cache :
        /\ d.youtube_id = extract_video_id(req'[p].youtube_url).video_id
        /\ d.file_type = ContentTypeOf(req[p].endpoint)}

\* The body request p is answered with.
BodyOf(p) == req'[p].response.body

\* The ServedFresh answer: status true, cached false, a fresh source and a
\* download URL ('fresh_download' is the word of line 306).
ServedFresh(body) ==
    /\ body.status = TRUE
    /\ Get(body, "cached", TRUE) = FALSE
    /\ Get(body, "source", "") \in {"fresh", "fresh_download"}
    /\ "download_url" \in DOMAIN body

\* The ServedFromCache answer: status true, cached true, a cache source
\* ('production_cache' and 'telegram_cache' are the words of lines 211, 254).
ServedFromCache(body) ==
    /\ body.status = TRUE
    /\ Get(body, "cached", FALSE) = TRUE
    /\ Get(body, "source", "") \in {"cache", "production_cache", "telegram_cache"}

\* C12: a request for content that has no cache record, made while the
\* upstream provider answers, is answered with status true, cached false,
\* source "fresh" and a download URL.
C12_EndToEndMiss ==
    [][\A p \in Requests :
          (/\ Answers(p)
           /\ AcceptedUrl(p)
           /\ RecordsFor(p) = {}
           /\ req'[p].upstream_ok)
          => ServedFresh(BodyOf(p))]_vars

\* C13: once an ingestion has inserted an active record for the content and
\* media type, every request for them is answered with status true, cached
\* true and source "cache".
C13_EndToEndHit ==
    [][\A p \in Requests :
          (/\ Answers(p)
           /\ AcceptedUrl(p)
           /\ \E d \in RecordsFor(p) :
                 d.status = "active" /\ d.telegram_file_id \in telegram_files)
          => ServedFromCache(BodyOf(p))]_vars

\* C14: on a miss with the upstream provider answering, the answer is
\* ServedFresh with the download URL whatever the state of the ingestion
\* tasks, and no step of an ingestion task changes a request or its answer.
C14_FreshDespiteIngestion ==
    [][/\ \A p \in Requests :
             (/\ Answers(p)
              /\ AcceptedUrl(p)
              /\ \A d \in RecordsFor(p) : d.status # "active"
              /\ req'[p].upstream_ok)
             => /\ req'[p].response.code = 200
                /\ BodyOf(p).status = TRUE
                /\ "download_url" \in DOMAIN BodyOf(p)
       /\ (ing' # ing) => (req' = req /\ concurrent_users' = concurrent_users)]_vars

\* C15: a request whose lookup can only hit records whose file is gone from
\* the channel marks such a record inactive, is not answered from the cache,
\* and is answered as a miss when the upstream provider answers.
C15_OrchestratorSelfHealing ==
    [][\A p \in Requests :
          (/\ Answers(p)
           /\ AcceptedUrl(p)
           /\ \E d \in RecordsFor(p) : d.status = "active"
           /\ \A d \in RecordsFor(p) :
                 d.status = "active" => d.telegram_file_id \notin telegram_files)
          => /\ \E d \in RecordsFor(p) :
                   /\ d.status = "active"
                   /\ \E e \in content_cache' : e._id = d._id /\ e.status # "active"
             /\ ~ServedFromCache(BodyOf(p))
             /\ req'[p].upstream_ok => ServedFresh(BodyOf(p))]_vars

\* C16: a content request whose URL matches no accepted shape is answered
\* with HTTP 400, and leaves the index and the ingestion tasks untouched.
C16_BadUrlRejected400 ==
    [][\A p \in Requests :
          (/\ Answers(p)
           /\ req'[p].youtube_url # NoUrl
           /\ extract_video_id(req'[p].youtube_url).raised)
          => /\ req'[p].response.code = 400
             /\ UNCHANGED <<content_cache, telegram_files, ing>>]_vars


(***************************************************************************)
(* Store errors in the rate limiter.                                       *)
(***************************************************************************)
\* C17: when the store raises during check_and_update_daily_limit, the
\* result is not allowed, the request is answered with a rejection, and the
\* orchestrator is never called for it.
C17_FailClosedAdmission ==
    \A p \in Requests :
        req[p].store_raised
        => /\ ~req[p].rate_check.allowed
           /\ req[p].pc = "done"
           /\ req[p].response.code = 429
           /\ ~req[p].orchestrated
           /\ req[p].session_id = NoSession

C17_Witness ==
    \E p, q \in Requests :
        /\ req[p].store_raised /\ req[p].key_data = None
        /\ req[q].store_raised /\ req[q].key_data # None
        /\ req[q].endpoint \in ContentEndpoints
        /\ req[q].response.error \in StoreErrors


(***************************************************************************)
(* The upload and its retries.                                             *)
(***************************************************************************)
\* The ingestion t has run its upload.
Uploaded(t) == ing[t].pc = "done" /\ ing[t].attempts # <<>>

\* The failure was a bad request (a non-retryable provider error).
NonRetryable(e) == "BadRequest" \in e

\* The failure was transient: provider rate limiting, a timeout or a network
\* error, and not a provider's refusal of the request.
Transient(e) ==
    /\ e \cap {"RetryAfter", "TimedOut", "NetworkError"} # {}
    /\ ~NonRetryable(e)

\* C18: the upload makes at most 5 attempts; it returns the file id of the
\* first attempt that succeeds; every attempt but the last failed with a
\* transient failure and was followed by the next delay of 1, 2, 5, 10
\* seconds; it returns no file when the 5th attempt fails.
C18_UploadRetryBounded ==
    \A t \in Tasks :
        Uploaded(t)
        => LET n == Len(ing[t].attempts) IN
           /\ n <= 5
           /\ \A k \in 1..(n - 1) : Transient(ing[t].attempts[k])
           /\ ing[t].slept = SubSeq(<<1, 2, 5, 10>>, 1, n - 1)
           /\ (ing[t].attempts[n] = Sent)
                 <=> (ing[t].result = FileIdOf(t) /\ FileIdOf(t) \in telegram_files)
           /\ (ing[t].attempts[n] # Sent) => ing[t].result = NoFile

\* C19: an upload attempt that fails with a bad request is the last attempt
\* of its upload, and the ingestion inserts no record.
C19_NonRetryableFailsAtOnce ==
    \A t \in Tasks :
        \A k \in 1..Len(ing[t].attempts) :
            NonRetryable(ing[t].attempts[k])
            => /\ k = Len(ing[t].attempts)
               /\ ing[t].result = NoFile
               /\ \A d \in content_cache : d._id # t


(***************************************************************************)
(* The upload semaphore across threads.                                    *)
(***************************************************************************)
\* The ingestions whose upload is in progress.
UploadsInProgress == {t \in DOMAIN ing : ing[t].pc = "upload"}

\* C20: at any moment at most 3 uploads are in progress in the process,
\* counted over all background ingestion threads.
C20_AtMostThreeUploads == Cardinality(UploadsInProgress) <= 3


(***************************************************************************)
(* What a refused admit call leaves behind.                                *)
(***************************************************************************)
\* Request p is in an admit call that the rate limiter refuses: its key is
\* absent or inactive, or the document it read was at its limit for today.
Refusable(p) ==
    /\ req[p].endpoint \in ContentEndpoints
    /\ req[p].api_key # NoKey
    /\ ~req[p].store_raised
    /\ ~KnownActive(req[p].api_key) \/ AtLimitToday(p)

\* C21: every step of an admit call whose key is absent or inactive, or
\* which found the key at its daily limit for today, leaves the stored key
\* documents as they are, and the call is not allowed.
C21_RefusedAdmitWritesNothing ==
    [][\A p \in Requests :
          (req'[p] # req[p] /\ Refusable(p)')
          => /\ UNCHANGED api_keys
             /\ Returned(p)' => ~req'[p].rate_check.allowed]_vars

C21_Witness ==
    \E p \in Requests :
        /\ Refusable(p) /\ Returned(p)
        /\ req[p].rate_check.error = "Daily limit exceeded"
        /\ api_keys[req[p].api_key].usage_count >= 1
        /\ api_keys[req[p].api_key].daily_requests = DailyLimitOf(req[p].key_data)


(***************************************************************************)
(* Properties of the fetch stage.                                          *)
(***************************************************************************)
\* The place of a quality among the tiers, lowest first.
QualityTiers == <<"360", "480", "720", "1080">>
TierOf(q) == CHOOSE i \in DOMAIN QualityTiers : QualityTiers[i] = q

\* The fetch stage has run for request p.
Fetched(p) == req[p].fetch # None

\* C22: for a video request the quality asked of the upstream provider is
\* never above the quality the client asked for.
C22_QualityCappedByRequest ==
    \A p \in Requests :
        (Fetched(p) /\ req[p].endpoint = "api.get_video")
        => TierOf(req[p].fetch.best_quality) <= TierOf(req[p].fetch.quality)

\* The reason download_content reports when the provider gives no URL
\* (youtube_downloader.py line 169).
UpstreamFailure == "Failed to get download URL after 5 attempts"

\* C23: a request that misses the cache while the upstream provider gives no
\* download URL is answered with a failure carrying the upstream reason, and
\* the step starts no ingestion and creates or changes no cache record.
C23_UpstreamFailureReported ==
    [][\A p \in Requests :
          (/\ Answers(p)
           /\ AcceptedUrl(p)
           /\ \A d \in RecordsFor(p) : d.status # "active"
           /\ ~req'[p].upstream_ok)
          => /\ BodyOf(p).status = FALSE
             /\ BodyOf(p).error = UpstreamFailure
             /\ UNCHANGED <<content_cache, telegram_files, ing>>]_vars

\* The fetch stage reports the provider's failure and starts no caching.
FetchStageReportsFailure ==
    \A p \in Requests :
        (Fetched(p) /\ ~req[p].fetch.download_result.status)
        => /\ req[p].fetch.result = ErrorResult(UpstreamFailure)
           /\ ~req[p].fetch.caching
           /\ ing[p].pc = "idle"


(***************************************************************************)
(* Properties of the cleanup.                                              *)
(***************************************************************************)
\* The records a cleanup is to delete: inactive ones last verified more than
\* the grace days ago, and active ones created more than the retention days
\* ago with fewer than 5 accesses.
ToDelete(d, days, grace) ==
    \/ d.status = "inactive" /\ d.last_verified < today - grace
    \/ d.status = "active" /\ d.created_at < today - days /\ d.access_count < 5

\* C24: a cleanup deletes exactly the inactive records verified longer ago
\* than the grace days and the active records older than the retention days
\* with fewer than 5 accesses; every other record survives.
C24_CleanupDeletesExactly ==
    [][(content_cache' # content_cache /\ lk' = lk /\ ing' = ing)
       => \E a \in CleanupArgs :
             content_cache' = {d \in content_cache : ~ToDelete(d, a[1], a[2])}]_vars


(***************************************************************************)
(* Properties of the metadata call.                                        *)
(***************************************************************************)
\* The metadata response could not be parsed or decoded.
DecodeFailures == {"not_json", "undecryptable"}

\* The record is made from the content id alone: the id is in the title,
\* the duration is the unknown one, and the resolver key is the id.
Synthesized(info, video_id) ==
    /\ \E i \in DOMAIN info.title : info.title[i] = video_id
    /\ info.duration = "0:00"
    /\ info.video_key = <<video_id>>

\* C25: after a parse or decode failure of the metadata response,
\* get_video_info returns the record synthesized from the content id.
C25_MetadataFallback ==
    \A p \in Requests :
        (Fetched(p) /\ req[p].fetch.meta \in DecodeFailures)
        => Synthesized(req[p].fetch.info, extract_video_id(req[p].youtube_url).video_id)


(***************************************************************************)
(* The access counter of a record.                                         *)
(***************************************************************************)
\* The lookups that returned record id as a hit.
HitsOf(lookups, id) ==
    {l \in DOMAIN lookups :
        /\ lookups[l].pc = "done"
        /\ lookups[l].result # None
        /\ lookups[l].cached_content._id = id}

\* C26: a lookup that returns a hit adds exactly 1 to the access_count of
\* its record and sets last_accessed; whatever the interleaving, the
\* access_count of a record is the number of hits returned for it, and it
\* never decreases.
C26_AccessCountCountsHits ==
    [][/\ \A d \in content_cache' :
             d.access_count = Cardinality(HitsOf(lk', d._id))
       /\ \A d \in content_cache : \A e \in content_cache' :
             e._id = d._id
             => /\ e.access_count >= d.access_count
                /\ (HitsOf(lk', d._id) # HitsOf(lk, d._id))
                      => (e.access_count = d.access_count + 1
                          /\ e.last_accessed = today)]_vars

C26_Witness ==
    \E d \in content_cache :
        /\ d.access_count = Cardinality(HitLookups)
        /\ \A l \in HitsOf(lk, d._id) : lk[l].cached_content.access_count = 0
        /\ d.last_accessed > d.created_at


(***************************************************************************)
(* The daily counter under concurrent calls.                               *)
(***************************************************************************)
\* check_and_update_daily_limit returns to request p in this step, allowing it.
BecomesAllowed(p) ==
    /\ ~Returned(p)
    /\ req'[p].rate_check # None
    /\ req'[p].rate_check.allowed

\* C27: no update of the daily counter is lost: every allowed call raises
\* the stored daily_requests of its key for the day by one, the same amount
\* by which it raises usage_count, so that the stored daily_requests is the
\* number of calls allowed that day.
C27_NoLostDailyUpdate ==
    [][\A p \in Requests :
          BecomesAllowed(p)
          => LET k == req[p].api_key IN
               /\ Get(api_keys'[k], "usage_count", 0)
                     = Get(api_keys[k], "usage_count", 0) + 1
               /\ Get(api_keys'[k], "daily_requests", 0)
                     = DailyRequestsOf(api_keys[k], today) + 1]_vars


(***************************************************************************)
(* What makes a lookup invalidate a record.                                *)
(***************************************************************************)
\* The record d is active before this step and inactive after it.
Invalidated(d) ==
    /\ d.status = "active"
    /\ \E e \in content_cache' : e._id = d._id /\ e.status = "inactive"

\* C28: a lookup marks a record inactive only when the probe reported that
\* the stored file is gone; a probe that failed for another reason (the
\* call to Telegram failed, the bot is not set up) invalidates nothing.
C28_InvalidateOnlyWhenGone ==
    [][\A l \in Lookups : \A d \in content_cache :
          (LookupReturns(l) /\ Invalidated(d)) => lk'[l].probe = "gone"]_vars


(***************************************************************************)
(* A lookup whose exact record lost its file.                              *)
(***************************************************************************)
\* The active records of (youtube_id, content_type) whose file is stored.
LiveRecords(cache, files, youtube_id, content_type) ==
    {d \in cache :
        /\ d.youtube_id = youtube_id
        /\ d.file_type = content_type
        /\ d.status = "active"
        /\ d.telegram_file_id \in files}

\* The lookup l of a video with a quality returns in this step after the
\* record of that quality it selected failed the probe because its file is
\* gone.
ExactRecordGone(l) ==
    /\ LookupReturns(l)
    /\ HasFallback(lk[l].content_type, lk[l].quality)
    /\ lk'[l].cached_content # None
    /\ lk'[l].cached_content.quality = lk[l].quality
    /\ lk'[l].probe = "gone"

\* C29: a lookup of a video with a quality returns a miss only if no active
\* record with a stored file exists for (youtube_id, video): when the record
\* of the asked quality fails its probe while an active record of another
\* quality with a stored file exists, the lookup returns that other record.
C29_MissOnlyWithoutLiveRecord ==
    [][\A l \in Lookups :
          ( /\ ExactRecordGone(l)
            /\ LiveRecords(content_cache', telegram_files', lk[l].youtube_id,
                           lk[l].content_type) # {} )
          => /\ lk'[l].result # None
             /\ lk'[l].result.telegram_file_id \in telegram_files']_vars


(***************************************************************************)
(* The quality recorded by the background ingestion.                       *)
(***************************************************************************)
\* The record the ingestion started by request p saved.
SavedBy(p, d) ==
    /\ Fetched(p)
    /\ req[p].fetch.caching
    /\ ing[p].pc = "done"
    /\ ing[p].telegram_file_id # NoFile
    /\ d.telegram_file_id = ing[p].telegram_file_id

\* C30: the quality stored in the record of a video saved by the background
\* ingestion, and the quality in its content_hash, is the quality that was
\* asked of the provider for that ingestion.
C30_RecordedQualityIsFetched ==
    \A p \in Tasks : \A d \in content_cache :
        (SavedBy(p, d) /\ d.file_type = "video")
        => /\ d.quality = req[p].fetch.best_quality
           /\ d.content_hash[3] = req[p].fetch.best_quality

=============================================================================
